---------------------------- MODULE Spec2Model ----------------------------
(***************************************************************************)
(* A model of the two snippets of the repository:                          *)
(*   task_1.rs  write_to_log: a leveled record written to the console or   *)
(*              appended to the file log.txt;                              *)
(*   task_2.rs  v1::foo and v2::foo: filter-and-enumerate over a vector.   *)
(* Text is a sequence of one-character strings, so that formatting, the    *)
(* line terminator and the reading back of lines are computed, not assumed.*)
(***************************************************************************)
EXTENDS Integers, Sequences, FiniteSets, TLC

VARIABLES
    logFileExists,  \* whether log.txt exists
    logFile,        \* the bytes of log.txt (<<>> when it does not exist)
    console,        \* the bytes written to standard output so far
    calls,          \* number of sequential write_to_log calls made
    call,           \* the arguments of the last call and what the environment did
    result,         \* what the last call returned (or that it panicked)
    before,         \* the sinks as they were when the last call started
    base,           \* log.txt at the start of the current run of successful calls
    okRecords,      \* what the FileSystem calls of that run were asked to append
    conc,           \* the two concurrent callers: position, arguments, result
    input,          \* task_2: the vector handed to foo
    output_v1,      \* task_2: what v1::foo returned
    output_v2       \* task_2: what v2::foo returned

vars == <<logFileExists, logFile, console, calls, call, result, before, base,
          okRecords, conc, input, output_v1, output_v2>>

logVars == <<logFileExists, logFile, console, calls, call, result, before, base, okRecords>>
fooVars == <<input, output_v1, output_v2>>

-----------------------------------------------------------------------------
(* Bounds *)

MaxCalls == 2

MaxMsgLen == 1

MaxInputLen == 3

-----------------------------------------------------------------------------
(* task_1.rs: the data model *)

LogType == {"Console", "FileSystem", "Network"}

LogLevel == {"Info", "Error", "Warn", "Debug"}

\* impl Display for LogLevel
LogLevel_fmt_lower(log_level) ==
    CASE log_level = "Info"  -> <<"i", "n", "f", "o">>
      [] log_level = "Error" -> <<"e", "r", "r", "o", "r">>
      [] log_level = "Warn"  -> <<"w", "a", "r", "n">>
      [] log_level = "Debug" -> <<"d", "e", "b", "u", "g">>

LogLevel_fmt(log_level) ==
    CASE log_level = "Info"  -> <<"I", "N", "F", "O">>
      [] log_level = "Error" -> <<"E", "R", "R", "O", "R">>
      [] log_level = "Warn"  -> <<"W", "A", "R", "N">>
      [] log_level = "Debug" -> <<"D", "E", "B", "U", "G">>

\* enum LogError, and the two ways a call ends without one
Ok == [kind |-> "Ok", text |-> ""]

FileOpenError(text) == [kind |-> "FileOpenError", text |-> text]

FileWriteError(text) == [kind |-> "FileWriteError", text |-> text]

Panicked(text) == [kind |-> "Panic", text |-> text]

NotCalled == [kind |-> "None", text |-> ""]

LogErrorKinds == {"FileOpenError", "FileWriteError", "LogError"}

NL == "\n"

\* The characters messages are made of, and the messages the callers pass.
Alphabet == {"a", NL}

RECURSIVE SeqsUpTo(_)
SeqsUpTo(n) ==
    IF n = 0 THEN {<<>>}
    ELSE LET shorter == SeqsUpTo(n - 1)
         IN  shorter \cup {Append(s, c) : s \in {t \in shorter : Len(t) = n - 1}, c \in Alphabet}

Messages == SeqsUpTo(MaxMsgLen)

\* What the operating system does to a call: nothing, or one failure, at the
\* open of log.txt, at the write of the record, at the write of the line
\* terminator, or at the write to standard output.
NoFault == [at |-> "none", err |-> ""]

Faults ==
    { NoFault,
      [at |-> "open",      err |-> "Permission denied (os error 13)"],
      [at |-> "write_msg", err |-> "No space left on device (os error 28)"],
      [at |-> "write_nl",  err |-> "No space left on device (os error 28)"],
      [at |-> "stdout",    err |-> "Broken pipe (os error 32)"] }

\* The faults that can make a difference to a call: that log.txt cannot be
\* opened is a condition of the file, which holds whatever the target; a
\* failing write strikes only the sink the target selects.
FaultsFor(log_type) ==
    CASE log_type = "Console"    -> {f \in Faults : f.at \in {"none", "open", "stdout"}}
      [] log_type = "FileSystem" -> {f \in Faults : f.at \in {"none", "open", "write_msg", "write_nl"}}
      [] log_type = "Network"    -> {f \in Faults : f.at \in {"none", "open"}}

-----------------------------------------------------------------------------
(* task_1.rs: write_to_log *)

\* let log_message = format!("[{}] {}", log_level, value.as_ref());
FormatRecord(log_level, value) ==
    <<"[">> \o LogLevel_fmt(log_level) \o <<"]", " ">> \o value

\* OpenOptions::new().append(true).create(true).open(DEFAULT_LOG_FILE_NAME):
\* fails when the system refuses the open, creates the file when it is missing.
\* Yields whether the open succeeded and whether the file exists afterwards.
Open_NoCreate(exists, fault) ==
    IF fault.at = "open" THEN [ok |-> FALSE, exists |-> exists, err |-> fault.err]
    ELSE IF ~exists THEN [ok |-> FALSE, exists |-> FALSE,
                          err |-> "No such file or directory (os error 2)"]
    ELSE [ok |-> TRUE, exists |-> TRUE, err |-> ""]

Open(exists, fault) ==
    IF fault.at = "open"
    THEN [ok |-> FALSE, exists |-> exists, err |-> fault.err]
    ELSE [ok |-> TRUE, exists |-> TRUE, err |-> ""]

\* A write through a handle opened with append(true) lands at the end of the file.
WriteAt_Truncating(content, chunk) == chunk

WriteAt(content, chunk) == content \o chunk

\* .map_err(|e| LogError::FileOpenError(e.to_string()))
MapOpenErr_Wrong(err) == FileWriteError(err)

MapOpenErr(err) == FileOpenError(err)

\* .map_err(|e| LogError::FileWriteError(e.to_string()))
MapWriteErr(err) == FileWriteError(err)

\* The state a call works on and leaves behind.
Sinks(exists, content, out) == [exists |-> exists, content |-> content, console |-> out]

Outcome(sinks, res) == [sinks |-> sinks, result |-> res]

\* LogType::Console => println!("{}", log_message): the record and a line
\* terminator go to standard output; println! panics when that write fails.
ConsoleArm_ViaFile(sinks, log_message, fault) ==
    LET opened == Open(sinks.exists, fault)
    IN  IF ~opened.ok
        THEN Outcome(sinks, MapOpenErr(opened.err))
        ELSE Outcome(Sinks(TRUE, sinks.content, sinks.console \o log_message \o <<NL>>), Ok)

ConsoleArm(sinks, log_message, fault) ==
    IF fault.at = "stdout"
    THEN Outcome(sinks, Panicked("failed printing to stdout: " \o fault.err))
    ELSE Outcome(Sinks(sinks.exists, sinks.content, sinks.console \o log_message \o <<NL>>), Ok)

\* LogType::FileSystem => open, then writeln!(file, "{}", log_message): the
\* formatter hands the record and then the line terminator to the unbuffered
\* file, one write each; the first failure ends the call.
FileSystemArm(sinks, log_message, fault) ==
    LET opened == Open(sinks.exists, fault)
        wrote1 == WriteAt(sinks.content, log_message)
        wrote2 == WriteAt(wrote1, <<NL>>)
    IN  IF ~opened.ok
        THEN Outcome(Sinks(opened.exists, sinks.content, sinks.console), MapOpenErr(opened.err))
        ELSE IF fault.at = "write_msg"
        THEN Outcome(Sinks(TRUE, sinks.content, sinks.console), MapWriteErr(fault.err))
        ELSE IF fault.at = "write_nl"
        THEN Outcome(Sinks(TRUE, wrote1, sinks.console), MapWriteErr(fault.err))
        ELSE Outcome(Sinks(TRUE, wrote2, sinks.console), Ok)

\* LogType::Network => todo!("Requires network implementation")
NetworkArm_AsConsole(sinks, log_message, fault) == ConsoleArm(sinks, log_message, fault)

NetworkArm(sinks, log_message, fault) ==
    Outcome(sinks, Panicked("not yet implemented: Requires network implementation"))

\* pub fn write_to_log(log_type, log_level, value) -> Result<(), LogError>
write_to_log_Filtered(sinks, log_type, log_level, value, fault) ==
    LET log_message == FormatRecord(log_level, value)
    IN  IF log_level = "Debug" THEN Outcome(sinks, Ok)
        ELSE CASE log_type = "Console"    -> ConsoleArm(sinks, log_message, fault)
               [] log_type = "FileSystem" -> FileSystemArm(sinks, log_message, fault)
               [] log_type = "Network"    -> NetworkArm(sinks, log_message, fault)

write_to_log(sinks, log_type, log_level, value, fault) ==
    LET log_message == FormatRecord(log_level, value)
    IN  CASE log_type = "Console"    -> ConsoleArm(sinks, log_message, fault)
          [] log_type = "FileSystem" -> FileSystemArm(sinks, log_message, fault)
          [] log_type = "Network"    -> NetworkArm(sinks, log_message, fault)

\* reader.lines(): the text between line terminators; an unterminated tail is
\* a line too, an empty tail is not.
RECURSIVE LinesFrom(_, _, _)
LinesFrom(s, i, cur) ==
    IF i > Len(s) THEN (IF cur = <<>> THEN <<>> ELSE <<cur>>)
    ELSE IF s[i] = NL THEN <<cur>> \o LinesFrom(s, i + 1, <<>>)
    ELSE LinesFrom(s, i + 1, Append(cur, s[i]))

Lines(s) == LinesFrom(s, 1, <<>>)

Last(s) == s[Len(s)]

-----------------------------------------------------------------------------
(* Sequential callers of write_to_log *)

NoCall == [log_type |-> "None", log_level |-> "None", value |-> <<>>, fault |-> NoFault]

LogInit ==
    /\ logFileExists = FALSE
    /\ logFile = <<>>
    /\ console = <<>>
    /\ calls = 0
    /\ call = NoCall
    /\ result = NotCalled
    /\ before = Sinks(FALSE, <<>>, <<>>)
    /\ base = <<>>
    /\ okRecords = <<>>

FooIdle ==
    /\ input = <<>>
    /\ output_v1 = [done |-> FALSE, value |-> <<>>]
    /\ output_v2 = [done |-> FALSE, value |-> <<>>]

Init ==
    /\ LogInit
    /\ conc = [pc |-> <<>>, args |-> <<>>, ret |-> <<>>]
    /\ FooIdle

\* One call, from entry to return (or panic).
WriteToLog(log_type, log_level, value, fault) ==
    /\ calls < MaxCalls
    /\ LET now == Sinks(logFileExists, logFile, console)
           out == write_to_log(now, log_type, log_level, value, fault)
           line == FormatRecord(log_level, value) \o <<NL>>
       IN  /\ logFileExists' = out.sinks.exists
           /\ logFile' = out.sinks.content
           /\ console' = out.sinks.console
           /\ result' = out.result
           /\ before' = now
           /\ IF out.result = Ok
              THEN /\ base' = base
                   /\ okRecords' = IF log_type = "FileSystem" THEN okRecords \o line
                                   ELSE okRecords
              ELSE /\ base' = out.sinks.content
                   /\ okRecords' = <<>>
    /\ calls' = calls + 1
    /\ call' = [log_type |-> log_type, log_level |-> log_level, value |-> value,
                fault |-> fault]
    /\ UNCHANGED <<conc, fooVars>>

Next ==
    \E log_type \in LogType, log_level \in LogLevel, value \in Messages :
        \E fault \in FaultsFor(log_type) :
            WriteToLog(log_type, log_level, value, fault)

Spec == Init /\ [][Next]_vars

-----------------------------------------------------------------------------
(* Two concurrent callers of write_to_log(FileSystem, ..), one step per       *)
(* system call: the open, the write of the record, the write of the line      *)
(* terminator.  Each caller has its own handle; nothing orders the callers.   *)

Callers == {1, 2}

IdleConc == [pc |-> <<>>, args |-> <<>>, ret |-> <<>>]

\* open(DEFAULT_LOG_FILE_NAME) is attempted as soon as the call starts,
\* whoever else holds the file open.
CanOpen_Exclusive(c, t) ==
    /\ c.pc[t] = "start"
    /\ \A u \in Callers \ {t} : c.pc[u] \notin {"opened", "wrote_msg"}

CanOpen(c, t) == c.pc[t] = "start"

Finish(t, res) ==
    conc' = [conc EXCEPT !.pc[t] = "done", !.ret[t] = res]

CallerOpen(t, fault) ==
    /\ CanOpen(conc, t)
    /\ LET opened == Open(logFileExists, fault)
       IN  /\ logFileExists' = opened.exists
           /\ IF opened.ok
              THEN conc' = [conc EXCEPT !.pc[t] = "opened"]
              ELSE Finish(t, MapOpenErr(opened.err))
    /\ UNCHANGED <<logFile, console, calls, call, result, before, base, okRecords, fooVars>>

CallerWriteMsg(t, fault) ==
    /\ conc.pc[t] = "opened"
    /\ IF fault.at = "write_msg"
       THEN /\ Finish(t, MapWriteErr(fault.err))
            /\ UNCHANGED logFile
       ELSE /\ logFile' = WriteAt(logFile, FormatRecord(conc.args[t].log_level, conc.args[t].value))
            /\ conc' = [conc EXCEPT !.pc[t] = "wrote_msg"]
    /\ UNCHANGED <<logFileExists, console, calls, call, result, before, base, okRecords, fooVars>>

CallerWriteNl(t, fault) ==
    /\ conc.pc[t] = "wrote_msg"
    /\ IF fault.at = "write_nl"
       THEN /\ Finish(t, MapWriteErr(fault.err))
            /\ UNCHANGED logFile
       ELSE /\ logFile' = WriteAt(logFile, <<NL>>)
            /\ Finish(t, Ok)
    /\ UNCHANGED <<logFileExists, console, calls, call, result, before, base, okRecords, fooVars>>

CallerStep(t) ==
    \E fault \in FaultsFor("FileSystem") :
        \/ CallerOpen(t, fault)
        \/ CallerWriteMsg(t, fault)
        \/ CallerWriteNl(t, fault)

ConcInit ==
    /\ LogInit
    /\ FooIdle
    /\ \E args \in [Callers -> [log_level : LogLevel, value : Messages]] :
          conc = [pc   |-> [t \in Callers |-> "start"],
                  args |-> args,
                  ret  |-> [t \in Callers |-> NotCalled]]

ConcNext == \E t \in Callers : CallerStep(t)

SpecConc == ConcInit /\ [][ConcNext]_vars

-----------------------------------------------------------------------------
(* task_2.rs: v1::foo and v2::foo *)

\* The values of the vectors in run(), and the vectors handed to foo.
StrValues == {"", "string_0", "string_1"}

RECURSIVE VecsUpTo(_)
VecsUpTo(n) ==
    IF n = 0 THEN {<<>>}
    ELSE LET shorter == VecsUpTo(n - 1)
         IN  shorter \cup {Append(s, v) : s \in {t \in shorter : Len(t) = n - 1}, v \in StrValues}

Inputs == VecsUpTo(MaxInputLen)

Some(value) == [is_some |-> TRUE, value |-> value]

None == [is_some |-> FALSE, value |-> ""]

\* v1: fn bar(value: &str) -> Option<&str>
v1_bar(value) == Some(value)

\* v2: fn bar<T: AsRef<str>>(value: T) -> Option<T>
v2_bar_DropEmpty(value) == IF value = "" THEN None ELSE Some(value)

v2_bar(value) == Some(value)

\* v1: .filter(|value| bar(value.as_ref()).is_some()): Iterator::filter keeps
\* the elements the closure accepts, as they are.
RECURSIVE v1_filter(_)
v1_filter(s) ==
    IF s = <<>> THEN <<>>
    ELSE IF v1_bar(Head(s)).is_some THEN <<Head(s)>> \o v1_filter(Tail(s))
    ELSE v1_filter(Tail(s))

\* v2: .filter_map(|val| bar(val)): Iterator::filter_map keeps what the closure
\* returns, where it returns Some.
RECURSIVE v2_filter_map(_)
v2_filter_map(s) ==
    IF s = <<>> THEN <<>>
    ELSE LET r == v2_bar(Head(s))
         IN  IF r.is_some THEN <<r.value>> \o v2_filter_map(Tail(s))
             ELSE v2_filter_map(Tail(s))

\* Iterator::enumerate, collected: the pairs (index, element), indices from 0.
Enumerate_FromOne(s) == [i \in 1..Len(s) |-> <<i, s[i]>>]

Enumerate(s) == [i \in 1..Len(s) |-> <<i - 1, s[i]>>]

\* v1: pub fn foo<T>(input: Vec<T>) -> Vec<(usize, T)>
v1_foo(in) == Enumerate(v1_filter(in))

\* v2: pub fn foo<T>(input: Vec<T>) -> Vec<(usize, T)>
v2_foo(in) == Enumerate(v2_filter_map(in))

NotRun == [done |-> FALSE, value |-> <<>>]

Returned(v) == [done |-> TRUE, value |-> v]

FooInit ==
    /\ LogInit
    /\ conc = [pc |-> <<>>, args |-> <<>>, ret |-> <<>>]
    /\ input \in Inputs
    /\ output_v1 = NotRun
    /\ output_v2 = NotRun

CallV1 ==
    /\ ~output_v1.done
    /\ output_v1' = Returned(v1_foo(input))
    /\ UNCHANGED <<logVars, conc, input, output_v2>>

CallV2 ==
    /\ ~output_v2.done
    /\ output_v2' = Returned(v2_foo(input))
    /\ UNCHANGED <<logVars, conc, input, output_v1>>

FooNext == CallV1 \/ CallV2

SpecFoo == FooInit /\ [][FooNext]_vars

-----------------------------------------------------------------------------
(* The claims.  The text a record is claimed to have is written out here,    *)
(* independently of FormatRecord.                                            *)

TagText(log_level) ==
    CASE log_level = "Info"  -> <<"I", "N", "F", "O">>
      [] log_level = "Error" -> <<"E", "R", "R", "O", "R">>
      [] log_level = "Warn"  -> <<"W", "A", "R", "N">>
      [] log_level = "Debug" -> <<"D", "E", "B", "U", "G">>

RecordText(log_level, value) == <<"[">> \o TagText(log_level) \o <<"]", " ">> \o value

HasLineBreak(s) == \E i \in 1..Len(s) : s[i] = NL

EndsLine(s) == s = <<>> \/ Last(s) = NL

CallRecord == RecordText(call.log_level, call.value)

FileCallOk == call.log_type = "FileSystem" /\ result = Ok

\* C1 as stated: for every level and every message, a successful
\* write_to_log(FileSystem, level, message) appends exactly one line, equal to
\* "[LEVEL] message", and that record is the file's last line afterwards.
C1_OneLinePerCall ==
    FileCallOk =>
        /\ Lines(logFile) = Append(Lines(before.content), CallRecord)
        /\ Last(Lines(logFile)) = CallRecord

\* C1 as amended: a successful write_to_log(FileSystem, level, message) appends
\* exactly the text "[LEVEL] message" and one line terminator to the file; when
\* the message holds no line terminator and the file was empty or ended with a
\* line terminator, that is exactly one more line, it equals "[LEVEL] message",
\* and it is the file's last line.
C1_AppendsRecord ==
    FileCallOk =>
        /\ logFile = before.content \o CallRecord \o <<NL>>
        /\ (~HasLineBreak(call.value) /\ EndsLine(before.content)) =>
              /\ Lines(logFile) = Append(Lines(before.content), CallRecord)
              /\ Last(Lines(logFile)) = CallRecord

C1_Witness ==
    /\ FileCallOk
    /\ ~HasLineBreak(call.value)
    /\ call.value # <<>>
    /\ before.content # <<>>
    /\ EndsLine(before.content)

\* C2: write_to_log returns FileOpenError when log.txt cannot be opened and
\* FileWriteError when a write fails, each with the text of the I/O failure; it
\* returns Ok for the FileSystem target only when the open and the writes all
\* succeeded; when the open fails nothing is written and the file is unchanged.
C2_FileErrors ==
    call.log_type = "FileSystem" =>
        /\ call.fault.at = "open" =>
              /\ result = [kind |-> "FileOpenError", text |-> call.fault.err]
              /\ logFile = before.content
              /\ logFileExists = before.exists
        /\ call.fault.at \in {"write_msg", "write_nl"} =>
              result = [kind |-> "FileWriteError", text |-> call.fault.err]
        /\ (result = Ok) <=> (call.fault.at = "none")
        /\ result.kind \in {"Ok", "FileOpenError", "FileWriteError"}

C2_Witness ==
    /\ call.log_type = "FileSystem"
    /\ call.fault.at = "open"
    /\ result.kind = "FileOpenError"
    /\ before.content # <<>>

C4_NetworkAborts ==
    call.log_type = "Network" =>
        /\ result.kind = "Panic"
        /\ console = before.console
        /\ logFile = before.content
        /\ logFileExists = before.exists

C4_Witness ==
    /\ call.log_type = "Network"
    /\ result.kind = "Panic"
    /\ ~logFileExists
    /\ calls > 1

\* C5: when log.txt does not exist, write_to_log(FileSystem, level, message)
\* creates it (unless the open itself is refused), and after a successful call
\* the file exists and holds exactly the record of that call.
C5_CreatesMissingFile ==
    (call.log_type = "FileSystem" /\ ~before.exists) =>
        /\ (call.fault.at # "open") => logFileExists
        /\ (result = Ok) =>
              /\ logFileExists
              /\ logFile = CallRecord \o <<NL>>

C5_Witness ==
    /\ call.log_type = "FileSystem"
    /\ ~before.exists
    /\ result = Ok
    /\ logFileExists

\* The environment failed an operation the last call performed.
Struck ==
    \/ call.log_type = "Console" /\ call.fault.at = "stdout"
    \/ call.log_type = "FileSystem" /\ call.fault.at # "none"

C7_NoCoordination ==
    \A t \in DOMAIN conc.pc :
        conc.pc[t] # "done" => ENABLED CallerStep(t)

WholeLine(t) == RecordText(conc.args[t].log_level, conc.args[t].value) \o <<NL>>

C7_Witness ==
    /\ \A t \in Callers : conc.pc[t] = "done" /\ conc.ret[t] = Ok
    /\ \A t \in Callers : ~HasLineBreak(conc.args[t].value)
    /\ logFile # WholeLine(1) \o WholeLine(2)
    /\ logFile # WholeLine(2) \o WholeLine(1)
    /\ Lines(logFile) # <<>>
    /\ Last(Lines(logFile)) = <<>>

\* C8: v1::foo and v2::foo are equivalent: for every input vector, empty
\* strings and the empty vector included, they return the same pairs.
C8_Equivalent ==
    (output_v1.done /\ output_v2.done) => output_v1.value = output_v2.value

C8_Witness ==
    /\ output_v1.done
    /\ output_v2.done
    /\ Len(input) >= 2
    /\ \E i \in 1..Len(input) : input[i] = ""
    /\ Len(output_v2.value) = Len(input)

\* The pairs (i, input[i]), i from 0.
Expected == [i \in 1..Len(input) |-> <<i - 1, input[i]>>]

\* C10: foo (v1 and v2) returns indices consecutive from 0 and the input's
\* elements in input order; bar returns Some for every value, so nothing is
\* dropped: the output has the input's length and its i-th pair is (i, input[i]).
C10_IndexedIdentity ==
    /\ output_v1.done => output_v1.value = Expected
    /\ output_v2.done => output_v2.value = Expected

C10_Witness ==
    /\ output_v1.done
    /\ output_v2.done
    /\ Len(input) >= 3
    /\ input[2] = ""
    /\ output_v1.value[3] = <<2, input[3]>>

=============================================================================
